---------------------------- MODULE Spec2Model ----------------------------
(***************************************************************************)
(* The two greedy resolvers of tutorials/semantic_deduplication.ipynb:     *)
(*   deduplicate                  (same-dataset duplicate resolver)        *)
(*   deduplicate_across_datasets  (cross-dataset overlap resolver)         *)
(* Both iterate over the lists yielded by reach.nearest_neighbor_threshold,*)
(* an external generator.  A yielded list is a sequence of items           *)
(* <<name, score>>: name is the decimal string of a document index (the    *)
(* Reach items are str(i)), score an integer on the scale of Threshold.    *)
(* A Python item[0] is item[1] here, item[1] is item[2].                   *)
(***************************************************************************)
EXTENDS Integers, Sequences, FiniteSets, TLC

\* ---- bounds of the model
MaxN == 3
MaxLen == 2
MaxRef == 2
MaxCrossLen == 3

\* ---- the threshold argument and the scores a backend can report around it
Threshold == 2

Scores == (Threshold - 1)..(Threshold + 1)

VARIABLES
    n,                              \* len(embedding_matrix) / len(embedding_matrix_2)
    n_ref,                          \* len(embedding_matrix_1) (cross-dataset only)
    exact,                          \* the upstream search delivers exactly `relation`
    relation,                       \* symmetric similarity: set of {a, b} at or above threshold
    pc,                             \* "next" (about to pull from the generator), "body",
                                    \* "end" (end of an iteration), "done" (returned)
    i,                              \* enumerate() index
    similar_items,                  \* the list yielded for i (<<>> outside an iteration)
    deduplicated_indices,
    duplicate_to_original_mapping,
    duplicate_indices_in_test

vars == <<n, n_ref, exact, relation, pc, i, similar_items, deduplicated_indices,
          duplicate_to_original_mapping, duplicate_indices_in_test>>

\* ---- str(i) and int(s): decimal digit strings as sequences of digits
RECURSIVE StrOf(_)
StrOf(j) == IF j < 10 THEN <<j>> ELSE Append(StrOf(j \div 10), j % 10)

RECURSIVE IntOf(_)
IntOf(s) == IF s = <<>> THEN 0 ELSE 10 * IntOf(SubSeq(s, 1, Len(s) - 1)) + s[Len(s)]

\* items=[str(i) for i in range(count)]
Items(count) == {StrOf(j) : j \in 0..(count - 1)}

\* ---- sequences of length at most len over a set
SeqsUpTo(S, len) == UNION {[1..l -> S] : l \in 0..len}

\* ---- the upstream generator
\* neighbours of a in the symmetric relation (a itself iff {a} is in it)
Neighbours(a) == {b \in 0..(n - 1) : {a, b} \in relation}

\* an exact backend yields every neighbour once, in any order, each at or above threshold
ExactLists(a) ==
    {s \in [1..Cardinality(Neighbours(a)) -> Items(n) \X {Threshold, Threshold + 1}] :
        {IntOf(s[p][1]) : p \in DOMAIN s} = Neighbours(a)}

\* an approximate backend yields anything: unsorted, asymmetric, repeated,
\* below threshold, or naming an index that is not a document (here: n)
AnyLists == SeqsUpTo(Items(n + 1) \X Scores, MaxLen)

Upstream(a) == IF exact THEN ExactLists(a) ELSE AnyLists

SymmetricRelations(count) == SUBSET {{a, b} : a, b \in 0..(count - 1)}

\* ---- deduplicate
\* variant: the self-pair is not dropped
RECURSIVE SimilarIndicesKeepSelf(_, _)
SimilarIndicesKeepSelf(items, a) ==
    IF items = <<>> THEN <<>>
    ELSE <<IntOf(Head(items)[1])>> \o SimilarIndicesKeepSelf(Tail(items), a)

\* variant: the score is compared with the threshold again
RECURSIVE SimilarIndicesThresholded(_, _)
SimilarIndicesThresholded(items, a) ==
    IF items = <<>> THEN <<>>
    ELSE LET rest == SimilarIndicesThresholded(Tail(items), a)
         IN  IF IntOf(Head(items)[1]) /= a /\ Head(items)[2] >= Threshold
             THEN <<IntOf(Head(items)[1])>> \o rest ELSE rest

\* variant: the item names are read as one-based
RECURSIVE SimilarIndicesOffByOne(_, _)
SimilarIndicesOffByOne(items, a) ==
    IF items = <<>> THEN <<>>
    ELSE LET rest == SimilarIndicesOffByOne(Tail(items), a)
         IN  IF IntOf(Head(items)[1]) + 1 /= a
             THEN <<IntOf(Head(items)[1]) + 1>> \o rest ELSE rest

\* similar_indices = [int(item[0]) for item in similar_items if int(item[0]) != i]
RECURSIVE SimilarIndices(_, _)
SimilarIndices(items, a) ==
    IF items = <<>> THEN <<>>
    ELSE LET rest == SimilarIndices(Tail(items), a)
         IN  IF IntOf(Head(items)[1]) /= a THEN <<IntOf(Head(items)[1])>> \o rest ELSE rest

\* variant: the duplicate is mapped but stays in the set
RECURSIVE MarkDuplicatesNoRemove(_, _, _, _)
MarkDuplicatesNoRemove(similar_indices, a, kept, mapping) ==
    IF similar_indices = <<>> THEN [kept |-> kept, mapping |-> mapping]
    ELSE LET sim_idx == Head(similar_indices)
         IN  IF sim_idx \in kept
             THEN MarkDuplicatesNoRemove(Tail(similar_indices), a, kept,
                                 [x \in DOMAIN mapping \cup {sim_idx} |->
                                     IF x = sim_idx THEN a ELSE mapping[x]])
             ELSE MarkDuplicatesNoRemove(Tail(similar_indices), a, kept, mapping)

\* variant: the loop stops after the first duplicate it marks
RECURSIVE MarkDuplicatesFirstOnly(_, _, _, _)
MarkDuplicatesFirstOnly(similar_indices, a, kept, mapping) ==
    IF similar_indices = <<>> THEN [kept |-> kept, mapping |-> mapping]
    ELSE LET sim_idx == Head(similar_indices)
         IN  IF sim_idx \in kept
             THEN [kept |-> kept \ {sim_idx},
                   mapping |-> [x \in DOMAIN mapping \cup {sim_idx} |->
                                   IF x = sim_idx THEN a ELSE mapping[x]]]
             ELSE MarkDuplicatesFirstOnly(Tail(similar_indices), a, kept, mapping)

\* variant: no membership test (discard instead of a guarded remove)
RECURSIVE MarkDuplicatesUnchecked(_, _, _, _)
MarkDuplicatesUnchecked(similar_indices, a, kept, mapping) ==
    IF similar_indices = <<>> THEN [kept |-> kept, mapping |-> mapping]
    ELSE LET sim_idx == Head(similar_indices)
         IN  MarkDuplicatesUnchecked(Tail(similar_indices), a, kept \ {sim_idx},
                                 [x \in DOMAIN mapping \cup {sim_idx} |->
                                     IF x = sim_idx THEN a ELSE mapping[x]])

\* variant: the mapping is written outside the membership test
RECURSIVE MarkDuplicatesOverwrite(_, _, _, _)
MarkDuplicatesOverwrite(similar_indices, a, kept, mapping) ==
    IF similar_indices = <<>> THEN [kept |-> kept, mapping |-> mapping]
    ELSE LET sim_idx == Head(similar_indices)
         IN  MarkDuplicatesOverwrite(Tail(similar_indices), a, kept \ {sim_idx},
                 IF sim_idx \in kept \/ sim_idx \in DOMAIN mapping
                 THEN [x \in DOMAIN mapping \cup {sim_idx} |->
                          IF x = sim_idx THEN a ELSE mapping[x]]
                 ELSE mapping)

\* for sim_idx in similar_indices: if sim_idx in deduplicated_indices: remove, map
RECURSIVE MarkDuplicates(_, _, _, _)
MarkDuplicates(similar_indices, a, kept, mapping) ==
    IF similar_indices = <<>> THEN [kept |-> kept, mapping |-> mapping]
    ELSE LET sim_idx == Head(similar_indices)
         IN  IF sim_idx \in kept
             THEN MarkDuplicates(Tail(similar_indices), a, kept \ {sim_idx},
                                 [x \in DOMAIN mapping \cup {sim_idx} |->
                                     IF x = sim_idx THEN a ELSE mapping[x]])
             ELSE MarkDuplicates(Tail(similar_indices), a, kept, mapping)

\* variant: an index already removed is still used as a source
NeverSkipped(a, kept) == FALSE

\* if i not in deduplicated_indices: continue
Skipped(a, kept) == a \notin kept

\* ---- deduplicate_across_datasets
\* the generator of the cross-dataset search: any list over the reference items
CrossLists == SeqsUpTo(Items(n_ref) \X Scores, MaxCrossLen)

\* variant: strict comparison with the threshold
RECURSIVE CrossSimilarIndicesStrict(_)
CrossSimilarIndicesStrict(items) ==
    IF items = <<>> THEN <<>>
    ELSE LET rest == CrossSimilarIndicesStrict(Tail(items))
         IN  IF Head(items)[2] > Threshold THEN <<IntOf(Head(items)[1])>> \o rest ELSE rest

\* similar_indices = [int(item[0]) for item in similar_items if item[1] >= threshold]
RECURSIVE CrossSimilarIndices(_)
CrossSimilarIndices(items) ==
    IF items = <<>> THEN <<>>
    ELSE LET rest == CrossSimilarIndices(Tail(items))
         IN  IF Head(items)[2] >= Threshold THEN <<IntOf(Head(items)[1])>> \o rest ELSE rest

\* variant: the last thresholded candidate is taken
LastSimilar(similar_indices) == similar_indices[Len(similar_indices)]

\* similar_indices[0]
FirstSimilar(similar_indices) == similar_indices[1]

Init ==
    /\ n \in 0..MaxN
    /\ n_ref = 0
    /\ \/ exact = FALSE /\ relation = {}
       \/ exact = TRUE /\ relation \in SymmetricRelations(n)
    /\ pc = "next"
    /\ i = 0
    /\ similar_items = <<>>
    /\ deduplicated_indices = 0..(n - 1)
    /\ duplicate_to_original_mapping = <<>>
    /\ duplicate_indices_in_test = <<>>

\* enumerate(tqdm(results)) yields the list of document i
NextResult ==
    /\ pc = "next"
    /\ i < n
    /\ similar_items' \in Upstream(i)
    /\ pc' = "body"
    /\ UNCHANGED <<n, n_ref, exact, relation, i, deduplicated_indices,
                   duplicate_to_original_mapping, duplicate_indices_in_test>>

\* one iteration of the loop body of deduplicate
LoopBody ==
    /\ pc = "body"
    /\ IF Skipped(i, deduplicated_indices)
       THEN UNCHANGED <<deduplicated_indices, duplicate_to_original_mapping>>
       ELSE LET r == MarkDuplicates(SimilarIndices(similar_items, i), i,
                                    deduplicated_indices, duplicate_to_original_mapping)
            IN  /\ deduplicated_indices' = r.kept
                /\ duplicate_to_original_mapping' = r.mapping
    /\ pc' = "end"
    /\ UNCHANGED <<n, n_ref, exact, relation, i, similar_items, duplicate_indices_in_test>>

\* back to the loop head: enumerate advances, the old list is dead
Advance ==
    /\ pc = "end"
    /\ i' = i + 1
    /\ similar_items' = <<>>
    /\ pc' = "next"
    /\ UNCHANGED <<n, n_ref, exact, relation, deduplicated_indices,
                   duplicate_to_original_mapping, duplicate_indices_in_test>>

\* the generator is exhausted: return
Return ==
    /\ pc = "next"
    /\ i = n
    /\ pc' = "done"
    /\ UNCHANGED <<n, n_ref, exact, relation, i, similar_items, deduplicated_indices,
                   duplicate_to_original_mapping, duplicate_indices_in_test>>

Next == NextResult \/ LoopBody \/ Advance \/ Return

Spec == Init /\ [][Next]_vars

InitCross ==
    /\ n \in 0..MaxN
    /\ n_ref \in 0..MaxRef
    /\ exact = FALSE
    /\ relation = {}
    /\ pc = "next"
    /\ i = 0
    /\ similar_items = <<>>
    /\ deduplicated_indices = {}
    /\ duplicate_to_original_mapping = <<>>
    /\ duplicate_indices_in_test = <<>>

\* enumerate(tqdm(results)) yields the list of query document i
CrossNextResult ==
    /\ pc = "next"
    /\ i < n
    /\ similar_items' \in CrossLists
    /\ pc' = "body"
    /\ UNCHANGED <<n, n_ref, exact, relation, i, deduplicated_indices,
                   duplicate_to_original_mapping, duplicate_indices_in_test>>

\* one iteration of the loop body of deduplicate_across_datasets
CrossLoopBody ==
    /\ pc = "body"
    /\ LET similar_indices == CrossSimilarIndices(similar_items)
       IN  IF similar_indices /= <<>>
           THEN /\ duplicate_indices_in_test' = Append(duplicate_indices_in_test, i)
                /\ duplicate_to_original_mapping' =
                       [x \in DOMAIN duplicate_to_original_mapping \cup {i} |->
                           IF x = i THEN FirstSimilar(similar_indices)
                           ELSE duplicate_to_original_mapping[x]]
           ELSE UNCHANGED <<duplicate_indices_in_test, duplicate_to_original_mapping>>
    /\ pc' = "end"
    /\ UNCHANGED <<n, n_ref, exact, relation, i, similar_items, deduplicated_indices>>

NextCross == CrossNextResult \/ CrossLoopBody \/ Advance \/ Return

SpecCross == InitCross /\ [][NextCross]_vars

\* ---- vocabulary of the properties
kept == deduplicated_indices

duplicate_of == duplicate_to_original_mapping

overlapping == duplicate_indices_in_test

reference_of == duplicate_to_original_mapping

Documents == 0..(n - 1)

\* the index named by the p-th item of the current list, and its score
CandidateAt(p) == IntOf(similar_items[p][1])

ScoreAt(p) == similar_items[p][2]

Min(S) == CHOOSE a \in S : \A b \in S : a <= b

Range(q) == {q[p] : p \in DOMAIN q}

\* a set of documents pairwise at or above threshold
MutuallySimilar(S) == \A a, b \in S : a /= b => {a, b} \in relation

\* no document outside S is a neighbour of a member of S
Isolated(S) == \A a \in S : \A b \in Documents \ S : {a, b} \notin relation

\* no member of S has a neighbour with an index below the lowest index of S
NoLowerNeighbour(S) == \A a \in S : \A b \in Neighbours(a) : b >= Min(S)

\* the lowest index of S survives and every other member maps to it
LowestWins(S) ==
    /\ Min(S) \in kept
    /\ \A j \in S \ {Min(S)} : j \in DOMAIN duplicate_of /\ duplicate_of[j] = Min(S)

\* ---- C1: in every state (after initialisation, after every iteration, at
\* return) kept and the key set of duplicate_of are disjoint and their union
\* is {0,...,n-1}
C1_Partition ==
    /\ kept \cap DOMAIN duplicate_of = {}
    /\ kept \cup DOMAIN duplicate_of = Documents

C1_Witness ==
    /\ pc = "done"
    /\ ~exact
    /\ Cardinality(kept) >= 2
    /\ Cardinality(DOMAIN duplicate_of) >= 1

\* ---- C2, as claimed: at return every value of duplicate_of is in kept, for
\* every relation (symmetric or not)
C2_RepresentativeInKept_Original ==
    pc = "done" => \A j \in DOMAIN duplicate_of : duplicate_of[j] \in kept

\* ---- C2, amended: at return every value of duplicate_of is in kept when the
\* delivered relation is symmetric
C2_RepresentativeInKept ==
    (pc = "done" /\ exact) => \A j \in DOMAIN duplicate_of : duplicate_of[j] \in kept

\* a symmetric chain 0 - 1 - 2 resolved: 1 was removed by 0 and, skipped, left 2 alone
C2_Witness ==
    /\ pc = "done"
    /\ exact
    /\ n = 3
    /\ {{0, 1}, {1, 2}} \subseteq relation
    /\ {0, 2} \notin relation
    /\ 1 \in DOMAIN duplicate_of
    /\ 2 \in kept

\* ---- C3: symmetric relation: for every set S of documents pairwise at or
\* above threshold with no neighbour outside S, at return min(S) is in kept and
\* every other member of S maps to min(S)
C3_IsolatedClusterLowestWins ==
    (pc = "done" /\ exact) =>
        \A S \in SUBSET Documents :
            (S /= {} /\ MutuallySimilar(S) /\ Isolated(S)) => LowestWins(S)

\* an isolated cluster of two that does not start at document 0
C3_Witness ==
    /\ pc = "done"
    /\ exact
    /\ \E S \in SUBSET Documents :
          /\ Cardinality(S) >= 2
          /\ 0 \notin S
          /\ MutuallySimilar(S)
          /\ Isolated(S)
          /\ LowestWins(S)

\* ---- C4, as claimed: symmetric and complete relation: for every set of
\* documents pairwise at or above threshold, at return its lowest index is in
\* kept and every other member maps to it
C4_ClusterLowestWins_Original ==
    (pc = "done" /\ exact) =>
        \A S \in SUBSET Documents : (S /= {} /\ MutuallySimilar(S)) => LowestWins(S)

\* ---- C4, amended: the same for every such set none of whose members has a
\* neighbour with an index below the lowest index of the set
C4_ClusterLowestWins ==
    (pc = "done" /\ exact) =>
        \A S \in SUBSET Documents :
            (S /= {} /\ MutuallySimilar(S) /\ NoLowerNeighbour(S)) => LowestWins(S)

\* a cluster of two with a neighbour outside it (so not isolated), none lower
C4_Witness ==
    /\ pc = "done"
    /\ exact
    /\ \E S \in SUBSET Documents :
          /\ Cardinality(S) >= 2
          /\ MutuallySimilar(S)
          /\ NoLowerNeighbour(S)
          /\ ~Isolated(S)
          /\ LowestWins(S)

\* ---- C5, as claimed: processing a canonical i, a candidate scoring exactly
\* the threshold is removed if still canonical, and a document is removed only
\* on account of an item whose score is at or above the threshold
C5_ThresholdDecides_Original ==
    [][(pc = "body" /\ i \in kept) =>
          /\ \A p \in DOMAIN similar_items :
                (ScoreAt(p) = Threshold /\ CandidateAt(p) /= i /\ CandidateAt(p) \in kept)
                    => CandidateAt(p) \notin kept'
          /\ \A j \in kept \ kept' :
                \E p \in DOMAIN similar_items :
                    CandidateAt(p) = j /\ ScoreAt(p) >= Threshold]_vars

\* ---- C5, amended: processing a canonical i, every candidate other than i that
\* is still canonical is removed and mapped to i whatever its score (the score
\* is not compared with the threshold again), so also one scoring exactly the
\* threshold and one delivered below it; nothing else is removed
C5_EveryDeliveredCandidateRemoved ==
    [][(pc = "body" /\ i \in kept) =>
          /\ \A p \in DOMAIN similar_items :
                (CandidateAt(p) /= i /\ CandidateAt(p) \in kept)
                    => /\ CandidateAt(p) \notin kept'
                       /\ CandidateAt(p) \in DOMAIN duplicate_of'
                       /\ duplicate_of'[CandidateAt(p)] = i
          /\ \A j \in kept \ kept' : \E p \in DOMAIN similar_items : CandidateAt(p) = j]_vars

\* an iteration that removed one candidate delivered below the threshold and
\* one delivered exactly at it
C5_Witness ==
    /\ pc = "end"
    /\ i \in kept
    /\ \E p, q \in DOMAIN similar_items :
          /\ ScoreAt(p) < Threshold
          /\ ScoreAt(q) = Threshold
          /\ CandidateAt(p) /= CandidateAt(q)
          /\ \A c \in {CandidateAt(p), CandidateAt(q)} :
                c \in DOMAIN duplicate_of /\ duplicate_of[c] = i

\* position of the first item of the current list at or above threshold
FirstAtOrAbove ==
    Min({p \in DOMAIN similar_items : ScoreAt(p) >= Threshold})

StrictlyIncreasing(q) == \A a, b \in DOMAIN q : a < b => q[a] < q[b]

IsPrefix(q, r) == Len(q) <= Len(r) /\ SubSeq(r, 1, Len(q)) = q

\* the state of overlapping and reference_of is consistent, and at the end of
\* an iteration says of the current query index what its list says
OverlapRecorded ==
    /\ StrictlyIncreasing(overlapping)
    /\ Range(overlapping) \subseteq 0..i
    /\ DOMAIN reference_of = Range(overlapping)
    /\ pc \in {"next", "body"} => i \notin Range(overlapping)
    /\ pc = "end" =>
          (i \in Range(overlapping) <=>
              \E p \in DOMAIN similar_items : ScoreAt(p) >= Threshold)

\* ---- C6: overlapping is strictly increasing without repetition, holds the
\* query index of an iteration exactly when its list has an item with score >=
\* threshold, only grows at its end (an index decided is never added or dropped
\* later), and its elements are the keys of reference_of
C6_OverlappingExact ==
    /\ [](OverlapRecorded)
    /\ [][IsPrefix(overlapping, overlapping')
          /\ Range(overlapping') \subseteq Range(overlapping) \cup {i}]_vars

\* a finished call over three queries where the middle one did not overlap
C6_Witness ==
    /\ pc = "done"
    /\ n = 3
    /\ overlapping = <<0, 2>>
    /\ DOMAIN reference_of = {0, 2}

\* ---- C7: at the end of the iteration of an overlapping query index i,
\* reference_of[i] is the index of the first item of i's list, in delivered
\* order, whose score is >= threshold (items below threshold before it are
\* skipped, a higher score after it does not matter); entries of earlier
\* query indices are left as they were
C7_FirstThresholdedCandidate ==
    /\ [](pc = "end" /\ i \in DOMAIN reference_of
            => reference_of[i] = CandidateAt(FirstAtOrAbove))
    /\ [][\A q \in DOMAIN reference_of : reference_of'[q] = reference_of[q]]_vars

\* a list that starts below threshold, then clears it, then scores higher with
\* another reference: the middle one was taken
C7_Witness ==
    /\ pc = "end"
    /\ Len(similar_items) = 3
    /\ ScoreAt(1) < Threshold
    /\ ScoreAt(2) = Threshold
    /\ ScoreAt(3) > Threshold
    /\ CandidateAt(1) /= CandidateAt(2)
    /\ CandidateAt(3) /= CandidateAt(2)
    /\ i \in DOMAIN reference_of
    /\ reference_of[i] = CandidateAt(2)

C9_NoSelfMapping ==
    /\ [](\A j \in DOMAIN duplicate_of : duplicate_of[j] /= j)
    /\ [][(pc = "body" /\ i \in kept) => i \in kept']_vars

\* an iteration whose list contained the document itself and another document:
\* the other one was removed, the document itself stayed
C9_Witness ==
    /\ pc = "end"
    /\ i \in kept
    /\ \E p, q \in DOMAIN similar_items :
          /\ CandidateAt(p) = i
          /\ CandidateAt(q) \in DOMAIN duplicate_of
          /\ duplicate_of[CandidateAt(q)] = i

\* ---- C10: an index already removed is skipped when its turn comes (its
\* iteration changes nothing), and whenever an entry duplicate_of[j] is written
\* its value is the index being processed, which is in the canonical set before
\* and after the step; for every relation
C10_SourceIsCanonical ==
    [][/\ (pc = "body" /\ i \notin kept) =>
             (kept' = kept /\ duplicate_of' = duplicate_of)
       /\ \A j \in (DOMAIN duplicate_of') \ (DOMAIN duplicate_of) :
             /\ duplicate_of'[j] = i
             /\ i \in kept
             /\ i \in kept']_vars

\* a removed document whose turn came with a canonical candidate in its list,
\* and the candidate is still canonical at the end of the iteration
C10_Witness ==
    /\ pc = "end"
    /\ ~exact
    /\ i \notin kept
    /\ \E p \in DOMAIN similar_items : CandidateAt(p) /= i /\ CandidateAt(p) \in kept

\* ---- C11: the canonical set only shrinks and the mapping is
\* first-writer-wins: in every step, an index that is a key of duplicate_of
\* stays a key with the same value and stays out of kept, also when the index
\* being processed lists it
C11_FirstWriterWins ==
    [][/\ kept' \subseteq kept
       /\ \A j \in DOMAIN duplicate_of :
             /\ j \in DOMAIN duplicate_of'
             /\ duplicate_of'[j] = duplicate_of[j]
             /\ j \notin kept']_vars

\* a canonical document whose list named a document already mapped to an
\* earlier one: the entry still names the earlier one
C11_Witness ==
    /\ pc = "end"
    /\ i \in kept
    /\ \E p \in DOMAIN similar_items :
          /\ CandidateAt(p) \in DOMAIN duplicate_of
          /\ duplicate_of[CandidateAt(p)] < i

\* ---- C12: no two surviving documents are linked by a delivered pair, for
\* every relation: at the end of the iteration of a document i still in kept,
\* no other document named in i's list is in kept, and kept never grows
\* afterwards; with the whole relation at hand (exact backend), at return no
\* document in kept has a neighbour other than itself in kept
C12_SurvivorsUnlinked ==
    /\ []((pc = "end" /\ i \in kept) =>
             \A p \in DOMAIN similar_items :
                 CandidateAt(p) /= i => CandidateAt(p) \notin kept)
    /\ [][kept' \subseteq kept]_vars
    /\ []((pc = "done" /\ exact) =>
             \A a \in kept : \A b \in Neighbours(a) \ {a} : b \notin kept)

\* an asymmetric case: a surviving document whose list named two other
\* documents, one with a lower index, and removed both
C12_Witness ==
    /\ pc = "end"
    /\ ~exact
    /\ i \in kept
    /\ \E p, q \in DOMAIN similar_items :
          /\ CandidateAt(p) < i
          /\ CandidateAt(q) \in Documents
          /\ CandidateAt(q) > i
          /\ \A c \in {CandidateAt(p), CandidateAt(q)} :
                c \in DOMAIN duplicate_of /\ duplicate_of[c] = i

\* every removed index maps to a strictly smaller one, and no value of
\* duplicate_of is itself a key
MapsToSmaller ==
    /\ \A j \in DOMAIN duplicate_of : duplicate_of[j] < j
    /\ \A j \in DOMAIN duplicate_of : duplicate_of[j] \notin DOMAIN duplicate_of

\* ---- C13, as claimed: symmetric relation: in every state every removed index
\* maps to a strictly smaller index, index 0 is in kept, and no value of
\* duplicate_of is itself a key
C13_MapsToSmaller_Original ==
    exact => (MapsToSmaller /\ 0 \in kept)

\* ---- C13, amended: the same, with index 0 in kept whenever there is a
\* document 0 (n >= 1); for n = 0 kept is empty
C13_MapsToSmaller ==
    exact => (MapsToSmaller /\ (n >= 1 => 0 \in kept))

\* three mutually similar documents resolved: both later ones map to 0,
\* although 2 is a neighbour of 1 as well
C13_Witness ==
    /\ pc = "done"
    /\ exact
    /\ n = 3
    /\ {1, 2} \in relation
    /\ 0 \in kept
    /\ DOMAIN duplicate_of = {1, 2}
    /\ duplicate_of[1] = 0
    /\ duplicate_of[2] = 0

\* ---- C14: every removal is justified by a delivered pair: an index leaves
\* kept or becomes a key of duplicate_of only in the iteration of the index it
\* maps to and only if the list delivered for that index names it; with the
\* whole relation at hand (exact backend), every entry duplicate_of[j] = i is a
\* pair of the relation, and at return a document that is a neighbour of no
\* other document in kept is in kept
C14_RemovalJustified ==
    /\ [][\A j \in (kept \ kept') \cup ((DOMAIN duplicate_of') \ (DOMAIN duplicate_of)) :
             /\ pc = "body"
             /\ j \in DOMAIN duplicate_of'
             /\ duplicate_of'[j] = i
             /\ \E p \in DOMAIN similar_items : CandidateAt(p) = j]_vars
    /\ [](exact => \A j \in DOMAIN duplicate_of : {j, duplicate_of[j]} \in relation)
    /\ []((pc = "done" /\ exact) =>
             \A j \in Documents :
                 (\A a \in kept \ {j} : {a, j} \notin relation) => j \in kept)

\* a finished call where document 2 survives although its only neighbour, 1,
\* lists it: 1 had been removed by 0 and was never a source
C14_Witness ==
    /\ pc = "done"
    /\ exact
    /\ n = 3
    /\ Neighbours(2) \ {2} = {1}
    /\ 1 \in DOMAIN duplicate_of
    /\ duplicate_of[1] = 0
    /\ kept = {0, 2}

=============================================================================
